---- MODULE Spec2Model ----
(***************************************************************************)
(* DealScout: the cached, retrying API client (code/api/client.py) and the *)
(* fallback policy of load_deals (code/main.py).                           *)
(*                                                                         *)
(* Strings are sequences of one-character strings, so that the f-string    *)
(* cache keys, sorted() and "_".join() are computed as Python computes     *)
(* them.  Time is a natural number of clock units read by time.time().     *)
(***************************************************************************)
EXTENDS Integers, Sequences, FiniteSets, TLC

VARIABLES
    now,        \* the clock read by time.time()
    cache,      \* DealScoutAPI.cache: key -> [value, timestamp]
    calls,      \* number of Transport requests issued through _request
    ret,        \* what the last client operation did and returned
    fetched,    \* history: request -> the last successful non-empty result
    memo,       \* the st.cache_data store of load_deals: args -> [value, at]
    ld,         \* what the last load_deals call handed downstream
    script,     \* the upstream's answers to the successive attempts
    rq,         \* the outcome of the last _request on that upstream
    session,    \* st.session_state: which of its keys are set
    view,       \* the current run of the script main.py: position and locals
    callers,    \* threads inside get_todays_deals on the one client
    alert       \* a PriceAlert and what its properties returned

vars == <<now, cache, calls, ret, fetched, memo, ld, script, rq, session, view,
          callers, alert>>

----------------------------------------------------------------------------
(* Bounds of the model.                                                    *)

MaxTime == 3
MaxCalls == 2
MaxDeals == 2
MaxRuns == 2
MaxPrice == 5

(* settings.CACHE_TTL and the ttl of st.cache_data, in clock units.  Both  *)
(* are run with small values; CACHE_TTL is read from the environment.      *)
CACHE_TTL == 2
LOAD_DEALS_TTL == 1

----------------------------------------------------------------------------
(* Strings.                                                                *)

Ord == ("1" :> 49 @@ "2" :> 50 @@ "5" :> 53 @@ "0" :> 48 @@ "3" :> 51 @@
        "4" :> 52 @@ "6" :> 54 @@ "7" :> 55 @@ "8" :> 56 @@ "9" :> 57 @@
        "_" :> 95 @@ "a" :> 97 @@ "b" :> 98 @@ "c" :> 99 @@ "d" :> 100 @@
        "e" :> 101 @@ "h" :> 104 @@ "l" :> 108 @@ "o" :> 111 @@
        "r" :> 114 @@ "s" :> 115 @@ "t" :> 116 @@ "m" :> 109 @@
        "B" :> 66 @@ "E" :> 69 @@ "H" :> 72 @@ "W" :> 87)

(* isinstance(x, str): every element is a character.  A list element that  *)
(* is not a str (None, a number) is written <<"<None>">>.                  *)
IsStr(x) == \A i \in DOMAIN x : x[i] \in DOMAIN Ord

NotAStr == <<"<None>">>

RECURSIVE StrLess(_, _)
StrLess(s, t) ==
    IF t = <<>> THEN FALSE
    ELSE IF s = <<>> THEN TRUE
    ELSE IF Ord[Head(s)] # Ord[Head(t)] THEN Ord[Head(s)] < Ord[Head(t)]
    ELSE StrLess(Tail(s), Tail(t))

RECURSIVE Insert(_, _)
Insert(x, l) ==
    IF l = <<>> THEN <<x>>
    ELSE IF StrLess(x, Head(l)) THEN <<x>> \o l
    ELSE <<Head(l)>> \o Insert(x, Tail(l))

(* sorted(list of str)                                                     *)
RECURSIVE Sorted(_)
Sorted(l) == IF l = <<>> THEN <<>> ELSE Insert(Head(l), Sorted(Tail(l)))

(* sep.join(list of str)                                                   *)
RECURSIVE Join(_, _)
Join(sep, l) ==
    IF l = <<>> THEN <<>>
    ELSE IF Len(l) = 1 THEN Head(l)
    ELSE Head(l) \o sep \o Join(sep, Tail(l))

Digit(d) == <<"0", "1", "2", "3", "4", "5", "6", "7", "8", "9">>[d + 1]

(* str(n) for a non-negative int                                           *)
RECURSIVE IntToStr(_)
IntToStr(n) == IF n < 10 THEN <<Digit(n)>>
               ELSE IntToStr(n \div 10) \o <<Digit(n % 10)>>

LowerOf ==
    ("A" :> "a" @@ "B" :> "b" @@ "C" :> "c" @@ "D" :> "d" @@ "E" :> "e" @@
     "F" :> "f" @@ "G" :> "g" @@ "H" :> "h" @@ "I" :> "i" @@ "J" :> "j" @@
     "K" :> "k" @@ "L" :> "l" @@ "M" :> "m" @@ "N" :> "n" @@ "O" :> "o" @@
     "P" :> "p" @@ "Q" :> "q" @@ "R" :> "r" @@ "S" :> "s" @@ "T" :> "t" @@
     "U" :> "u" @@ "V" :> "v" @@ "W" :> "w" @@ "X" :> "x" @@ "Y" :> "y" @@
     "Z" :> "z")

(* s.lower()                                                               *)
Lower(s) ==
    [i \in DOMAIN s |-> IF s[i] \in DOMAIN LowerOf THEN LowerOf[s[i]] ELSE s[i]]

(* sub in s                                                                *)
Contains(sub, s) ==
    \E i \in 0..(Len(s) - Len(sub)) : SubSeq(s, i + 1, i + Len(sub)) = sub

----------------------------------------------------------------------------
(* JSON values as the client sees them.                                    *)

None == [kind |-> "None", items |-> <<>>]          \* the no-result sentinel
EmptyList == [kind |-> "list", items |-> <<>>]     \* a successful []
True == [kind |-> "True", items |-> <<>>]
False == [kind |-> "False", items |-> <<>>]

(* A successful non-empty body: what the upstream holds for request req at *)
(* time t.                                                                 *)
Body(req, t) == [kind |-> "list", items |-> <<[for |-> req, at |-> t]>>]

(* bool(v), as `if cached := ...` and `if not deals` evaluate it           *)
Truthy(v) == v.kind = "True" \/ (v.kind = "list" /\ v.items # <<>>)

(* The values of a deal's fields: a str, a number (prices in cents,        *)
(* distances in tenths of a mile), float('inf'), or None for a JSON null.  *)
Str(s) == [kind |-> "str", items |-> s]
Num(n) == [kind |-> "num", num |-> n]
Inf == [kind |-> "inf"]

(* dict.get(key, default)                                                  *)
Get(d, key, default) == IF key \in DOMAIN d THEN d[key] ELSE default

----------------------------------------------------------------------------
(* Cache fingerprints (the f-strings of the four cached reads).            *)

US == <<"_">>

DealsKey(zip_code, radius, store_chains) ==
    <<"d", "e", "a", "l", "s", "_">> \o zip_code \o US \o IntToStr(radius)
        \o US \o Join(US, Sorted(store_chains))

SearchKey(query, zip_code, radius) ==
    <<"s", "e", "a", "r", "c", "h", "_">> \o query \o US \o zip_code
        \o US \o IntToStr(radius)

StoresKey(zip_code, radius, chains) ==
    <<"s", "t", "o", "r", "e", "s", "_">> \o zip_code \o US \o IntToStr(radius)
        \o US \o Join(US, Sorted(chains))

StoreKey(store_id) == <<"s", "t", "o", "r", "e", "_">> \o store_id

----------------------------------------------------------------------------
(* The request cache.                                                      *)

Remove(c, key) == [k \in DOMAIN c \ {key} |-> c[k]]

(* Variant: the expiry test written with <= .                              *)
Fresh_le(entry, t) == t - entry.timestamp <= CACHE_TTL

(* An entry is valid while time.time() - timestamp < settings.CACHE_TTL.   *)
Fresh(entry, t) == t - entry.timestamp < CACHE_TTL

(* Variant: the expired entry is not deleted.                              *)
GetCached_nodel(c, key, t) ==
    IF key \in DOMAIN c /\ Fresh(c[key], t)
    THEN [value |-> c[key].value, cache |-> c]
    ELSE [value |-> None, cache |-> c]

(* Variant: sliding expiry, a hit renews the entry's time.                 *)
GetCached_touch(c, key, t) ==
    IF key \in DOMAIN c
    THEN IF Fresh(c[key], t)
         THEN [value |-> c[key].value,
               cache |-> [c EXCEPT ![key] = [@ EXCEPT !.timestamp = t]]]
         ELSE [value |-> None, cache |-> Remove(c, key)]
    ELSE [value |-> None, cache |-> c]

(* _get_cached(key) at time t: the value returned (None for a miss) and    *)
(* the cache it leaves.                                                    *)
GetCached(c, key, t) ==
    IF key \in DOMAIN c
    THEN IF Fresh(c[key], t)
         THEN [value |-> c[key].value, cache |-> c]
         ELSE [value |-> None, cache |-> Remove(c, key)]
    ELSE [value |-> None, cache |-> c]

(* Variant: the entry is stored without the time of the fetch.             *)
SetCache_notime(c, key, value, t) ==
    [k \in DOMAIN c \cup {key} |->
        IF k = key THEN [value |-> value, timestamp |-> 0] ELSE c[k]]

(* Variant: setdefault, the first entry written under a key stays.         *)
SetCache_absent(c, key, value, t) ==
    IF key \in DOMAIN c
    THEN c
    ELSE [k \in DOMAIN c \cup {key} |->
             IF k = key THEN [value |-> value, timestamp |-> t] ELSE c[k]]

(* _set_cache(key, value) at time t                                        *)
SetCache(c, key, value, t) ==
    [k \in DOMAIN c \cup {key} |->
        IF k = key THEN [value |-> value, timestamp |-> t] ELSE c[k]]

----------------------------------------------------------------------------
(* Transport: session.request under Retry(total=3, status_forcelist=...)   *)
(* and _request around it.                                                 *)

RetryTotal == 3
StatusForcelist == {429, 500, 502, 503, 504}

(* What the upstream does with one attempt: no response at all (a network  *)
(* failure, status 0) or a response with a status and a body.              *)
ConnError == [status |-> 0, body |-> "none"]
Resp(status, body) == [status |-> status, body |-> body]

AttemptOutcomes ==
    {ConnError, Resp(200, "list"), Resp(200, "empty"), Resp(200, "bad"),
     Resp(401, "none"), Resp(404, "none"), Resp(503, "none")}

(* The upstream's answers to attempts 1, 2, ...: one more than the client  *)
(* can ever consume.                                                       *)
ScriptLen == RetryTotal + 2
Scripts == [1..ScriptLen -> AttemptOutcomes]

(* Variant: no status_forcelist, only failed connections are retried.      *)
Retryable_conn(o) == o.status = 0

(* Variant: every error status is retried.                                 *)
Retryable_anyerror(o) == o.status = 0 \/ o.status >= 400

(* Does the adapter try again after attempt i answered o?                  *)
Retryable(o) == o.status = 0 \/ o.status \in StatusForcelist

(* session.request: attempts i, i+1, ... until an answer is final or the   *)
(* retries are used up.  kind "response": a response reached the caller;   *)
(* kind "exception": ConnectionError / RetryError was raised.              *)
RECURSIVE SessionRequest(_, _)
SessionRequest(s, i) ==
    IF Retryable(s[i])
    THEN IF i <= RetryTotal
         THEN SessionRequest(s, i + 1)
         ELSE [attempts |-> i, kind |-> "exception", last |-> s[i]]
    ELSE [attempts |-> i, kind |-> "response", last |-> s[i]]

(* The exception raised inside the try block of _request, "none" if the   *)
(* body was parsed: RetryError / ConnectionError from the adapter,         *)
(* HTTPError from raise_for_status, a ValueError from response.json().     *)
Raised(r) ==
    IF r.kind = "exception"
    THEN IF r.last.status = 0 THEN "ConnectionError" ELSE "RetryError"
    ELSE IF r.last.status >= 400 THEN "HTTPError"
    ELSE IF r.last.body = "bad" THEN "ValueError"
    ELSE "none"

(* except requests.exceptions.RequestException / except Exception          *)
RequestExceptions == {"ConnectionError", "RetryError", "HTTPError"}
Exceptions == RequestExceptions \cup {"ValueError"}

(* Variant: only the first except clause.                                  *)
Caught_first(e) == e \in RequestExceptions

(* The except clauses of _request: is exception e handed back as None?     *)
Caught(e) == e \in RequestExceptions \/ e \in Exceptions

(* _request on an upstream that answers s: the number of attempts made,    *)
(* whether an exception leaves _request, and the result ("None", "empty"   *)
(* or "list").                                                             *)
Request(s) ==
    LET r == SessionRequest(s, 1)
        e == Raised(r)
    IN  [attempts |-> r.attempts,
         failure |-> e,
         raised |-> e # "none" /\ ~Caught(e),
         result |-> IF e # "none" THEN "None" ELSE r.last.body]

(* Every outcome _request can have, whatever the upstream does.            *)
RequestOutcomes ==
    {[raised |-> Request(s).raised, result |-> Request(s).result] : s \in Scripts}

(* The value _request returns for request req answered at time t.          *)
Data(o, req, t) ==
    IF o.result = "list" THEN Body(req, t)
    ELSE IF o.result = "empty" THEN EmptyList
    ELSE None

----------------------------------------------------------------------------
(* Inputs.                                                                 *)

ZipCodes == {<<"1">>}
Radii == {10}
Queries == {<<"a">>}
ChainLists ==
    {<<<<"a">>, <<"b">>>>, <<<<"b">>, <<"a">>>>, <<<<"a", "_", "b">>>>,
     <<NotAStr>>}
StoreChainLists == {<<<<"a">>, <<"b">>>>, <<<<"b">>, <<"a">>>>}
StoreIds == {<<"s">>}
AlertIds == {<<"1">>}
TargetPrices == {100}

DealsReq(z, r, ch) ==
    [op |-> "get_todays_deals", zip_code |-> z, radius |-> r, store_chains |-> ch]
SearchReq(q, z, r) ==
    [op |-> "search_products", query |-> q, zip_code |-> z, radius |-> r]
StoresReq(z, r, ch) ==
    [op |-> "get_nearby_stores", zip_code |-> z, radius |-> r, chains |-> ch]
StoreReq(id) == [op |-> "get_store_details", store_id |-> id]
CreateReq(id, price) ==
    [op |-> "create_price_alert", product_id |-> id, target_price |-> price]
AlertsReq == [op |-> "get_user_alerts"]
DeleteReq(id) == [op |-> "delete_alert", alert_id |-> id]

CachedOps ==
    {"get_todays_deals", "search_products", "get_nearby_stores",
     "get_store_details"}

(* The cache key a cached read computes for its arguments.                 *)
KeyOf(req) ==
    IF req.op = "get_todays_deals"
    THEN DealsKey(req.zip_code, req.radius, req.store_chains)
    ELSE IF req.op = "search_products"
    THEN SearchKey(req.query, req.zip_code, req.radius)
    ELSE IF req.op = "get_nearby_stores"
    THEN StoresKey(req.zip_code, req.radius, req.chains)
    ELSE StoreKey(req.store_id)

(* "_".join raises TypeError on a list that holds a non-str.               *)
JoinRaises(l) == \E i \in DOMAIN l : ~IsStr(l[i])

KeyRaises(req) ==
    IF req.op = "get_todays_deals" THEN JoinRaises(req.store_chains)
    ELSE IF req.op = "get_nearby_stores" THEN JoinRaises(req.chains)
    ELSE FALSE

----------------------------------------------------------------------------
(* The state machine of one client.                                        *)

(* An operation is instantaneous on the scale of the clock: its reads of   *)
(* time.time() all give `now`.                                             *)

NoCall ==
    [op |-> "none", req |-> [op |-> "none"], outcome |-> "none", value |-> None,
     sent |-> FALSE, hit |-> FALSE]

Returned(req, v, sent, hit) ==
    [op |-> req.op, req |-> req, outcome |-> "return", value |-> v,
     sent |-> sent, hit |-> hit]

RaisedBy(req) ==
    [op |-> req.op, req |-> req, outcome |-> "raise", value |-> None,
     sent |-> FALSE, hit |-> FALSE]

(* An exception that leaves _request leaves the operation too.            *)
Propagated(req) ==
    [op |-> req.op, req |-> req, outcome |-> "raise", value |-> None,
     sent |-> TRUE, hit |-> FALSE]

(* The hit test of the cached reads: `if cached := self._get_cached(key)`. *)
IsHit(v) == Truthy(v)

(* What a cached read does to the client: compute the key, _get_cached,    *)
(* return on a hit; else _request (answered o),                            *)
(* _set_cache and return the data.                                         *)
CachedRead(req, o) ==
    IF KeyRaises(req)
    THEN /\ ret' = RaisedBy(req)
         /\ UNCHANGED <<now, cache, calls, fetched>>
    ELSE LET key == KeyOf(req)
             g == GetCached(cache, key, now)
         IN  IF IsHit(g.value)
             THEN /\ ret' = Returned(req, g.value, FALSE, TRUE)
                  /\ cache' = g.cache
                  /\ UNCHANGED <<now, calls, fetched>>
             ELSE /\ calls < MaxCalls
                  /\ UNCHANGED now
                  /\ calls' = calls + 1
                  /\ IF o.raised
                     THEN /\ ret' = Propagated(req)
                          /\ cache' = g.cache
                          /\ UNCHANGED fetched
                     ELSE LET data == Data(o, req, now) IN
                          /\ cache' = SetCache(g.cache, key, data, now)
                          /\ ret' = Returned(req, data, TRUE, FALSE)
                          /\ fetched' =
                               IF Truthy(data)
                               THEN [r \in DOMAIN fetched \cup {req} |->
                                       IF r = req
                                       THEN [value |-> data, at |-> now]
                                       ELSE fetched[r]]
                               ELSE fetched

(* The sample data of main.py, field by field (the fields no code of the   *)
(* model reads are left out: original_price, store_name, image_url).       *)
MockDeal(id, product_name, brand, price, discount, store, distance, category) ==
    [id |-> Str(id), product_name |-> Str(product_name), brand |-> Str(brand),
     price |-> Num(price), discount_percent |-> Num(discount),
     store_id |-> Str(store), distance |-> Num(distance),
     category |-> Str(category)]

Dairy == <<"D", "a", "i", "r", "y">>
Meat == <<"M", "e", "a", "t">>
Produce == <<"P", "r", "o", "d", "u", "c", "e">>

(* get_mock_deals()                                                        *)
MockDeals ==
    << MockDeal(<<"1">>,
          <<"O", "r", "g", "a", "n", "i", "c", " ", "W", "h",
            "o", "l", "e", " ", "M", "i", "l", "k", " ", "-",
            " ", "1", " ", "G", "a", "l", "l", "o", "n">>,
          <<"O", "r", "g", "a", "n", "i", "c", " ", "V", "a",
            "l", "l", "e", "y">>,
          499, 17, <<"H", "E", "B", "-", "1", "2", "3">>, 15, Dairy),
       MockDeal(<<"2">>,
          <<"L", "a", "r", "g", "e", " ", "B", "r", "o", "w",
            "n", " ", "E", "g", "g", "s", " ", "-", " ", "1",
            "2", " ", "C", "o", "u", "n", "t">>,
          <<"H", "a", "p", "p", "y", " ", "E", "g", "g", " ",
            "C", "o">>,
          349, 30, <<"W", "A", "L", "-", "4", "5", "6">>, 21, Dairy),
       MockDeal(<<"3">>,
          <<"F", "r", "e", "s", "h", " ", "G", "r", "o", "u",
            "n", "d", " ", "B", "e", "e", "f", " ", "-", " ",
            "1", "l", "b">>,
          <<"C", "e", "r", "t", "i", "f", "i", "e", "d", " ",
            "A", "n", "g", "u", "s", " ", "B", "e", "e", "f">>,
          599, 25, <<"H", "E", "B", "-", "1", "2", "3">>, 15, Meat),
       MockDeal(<<"4">>,
          <<"O", "r", "g", "a", "n", "i", "c", " ", "B", "a",
            "n", "a", "n", "a", "s", " ", "-", " ", "1", "l", "b">>,
          <<"D", "o", "l", "e">>,
          59, 25, <<"W", "F", "-", "7", "8", "9">>, 32, Produce),
       MockDeal(<<"5">>,
          <<"C", "a", "g", "e", "-", "F", "r", "e", "e", " ",
            "C", "h", "i", "c", "k", "e", "n", " ", "B", "r",
            "e", "a", "s", "t", " ", "-", " ", "2", ".", "5",
            "l", "b">>,
          <<"P", "e", "r", "d", "u", "e">>,
          899, 31, <<"H", "E", "B", "-", "1", "2", "3">>, 15, Meat),
       MockDeal(<<"6">>,
          <<"O", "r", "g", "a", "n", "i", "c", " ", "S", "t",
            "r", "a", "w", "b", "e", "r", "r", "i", "e", "s",
            " ", "-", " ", "1", "6", "o", "z">>,
          <<"D", "r", "i", "s", "c", "o", "l", "l", "'", "s">>,
          399, 33, <<"T", "J", "-", "1", "0", "1">>, 45, Produce) >>

(* Variant: an operation that falls back to the sample data when the data *)
(* is empty or None.                                                       *)
ReturnOf_fallback(req, data) ==
    IF req.op = "delete_alert" THEN True
    ELSE IF ~Truthy(data) THEN [kind |-> "list", items |-> MockDeals]
    ELSE data

(* Variant: delete_alert hands on whether the request succeeded.           *)
ReturnOf_signal(req, data) ==
    IF req.op = "delete_alert" THEN (IF data = None THEN False ELSE True)
    ELSE data

(* What an uncached operation returns for the data _request gave it:      *)
(* delete_alert returns True whatever it was, the others return the data.  *)
ReturnOf(req, data) == IF req.op = "delete_alert" THEN True ELSE data

(* Variant: the result of the operation is stored in the cache.            *)
Uncached_stored(req, o) ==
    /\ calls < MaxCalls
    /\ UNCHANGED now
    /\ calls' = calls + 1
    /\ ret' = IF o.raised THEN Propagated(req)
              ELSE Returned(req, ReturnOf(req, Data(o, req, now)), TRUE,
                            FALSE)
    /\ cache' = SetCache(cache, <<"a", "l", "e", "r", "t", "s">>,
                         Data(o, req, now), now)
    /\ UNCHANGED fetched

(* An operation that only wraps _request: no cache access.                 *)
Uncached(req, o) ==
    /\ calls < MaxCalls
    /\ UNCHANGED now
    /\ calls' = calls + 1
    /\ ret' = IF o.raised THEN Propagated(req)
              ELSE Returned(req, ReturnOf(req, Data(o, req, now)), TRUE,
                            FALSE)
    /\ UNCHANGED <<cache, fetched>>

UNCHANGED_app == UNCHANGED <<memo, ld>>
UNCHANGED_rq == UNCHANGED <<script, rq>>
UNCHANGED_ui == UNCHANGED <<session, view>>
UNCHANGED_ext == UNCHANGED <<callers, alert>>

GetTodaysDeals(zip_code, radius, store_chains) ==
    /\ \E o \in RequestOutcomes :
          CachedRead(DealsReq(zip_code, radius, store_chains), o)
    /\ UNCHANGED_app /\ UNCHANGED_rq /\ UNCHANGED_ui /\ UNCHANGED_ext

SearchProducts(query, zip_code, radius) ==
    /\ \E o \in RequestOutcomes :
          CachedRead(SearchReq(query, zip_code, radius), o)
    /\ UNCHANGED_app /\ UNCHANGED_rq /\ UNCHANGED_ui /\ UNCHANGED_ext

GetNearbyStores(zip_code, radius, chains) ==
    /\ \E o \in RequestOutcomes :
          CachedRead(StoresReq(zip_code, radius, chains), o)
    /\ UNCHANGED_app /\ UNCHANGED_rq /\ UNCHANGED_ui /\ UNCHANGED_ext

GetStoreDetails(store_id) ==
    /\ \E o \in RequestOutcomes :
          CachedRead(StoreReq(store_id), o)
    /\ UNCHANGED_app /\ UNCHANGED_rq /\ UNCHANGED_ui /\ UNCHANGED_ext

CreatePriceAlert(product_id, target_price) ==
    /\ \E o \in RequestOutcomes :
          Uncached(CreateReq(product_id, target_price), o)
    /\ UNCHANGED_app /\ UNCHANGED_rq /\ UNCHANGED_ui /\ UNCHANGED_ext

GetUserAlerts ==
    /\ \E o \in RequestOutcomes :
          Uncached(AlertsReq, o)
    /\ UNCHANGED_app /\ UNCHANGED_rq /\ UNCHANGED_ui /\ UNCHANGED_ext

DeleteAlert(alert_id) ==
    /\ \E o \in RequestOutcomes :
          Uncached(DeleteReq(alert_id), o)
    /\ UNCHANGED_app /\ UNCHANGED_rq /\ UNCHANGED_ui /\ UNCHANGED_ext

(* The clock advances between operations.                                  *)
Tick ==
    /\ now < MaxTime
    /\ now' = now + 1
    /\ UNCHANGED <<cache, calls, ret, fetched, memo, ld, script, rq>>
    /\ UNCHANGED_ui /\ UNCHANGED_ext

----------------------------------------------------------------------------
(* load_deals (main.py): the fallback to the sample data, under            *)
(* st.cache_data(ttl=300).                                                 *)

NoLoad ==
    [args |-> <<>>, deals |-> <<>>, count |-> 0, source |-> "none",
     upstream |-> "none"]

(* Variant: the fallback test written `if deals is None`.                  *)
LoadDealsBody_isnone(args, r) ==
    IF r.outcome = "raise" \/ r.value = None
    THEN [args |-> args, deals |-> MockDeals, count |-> Len(MockDeals),
          source |-> "mock",
          upstream |-> IF r.outcome = "raise" THEN "raise" ELSE "None"]
    ELSE [args |-> args, deals |-> r.value.items, count |-> Len(r.value.items),
          source |-> "api",
          upstream |-> IF r.value.items = <<>> THEN "empty" ELSE "list"]

(* Variant: the count is always that of the sample data.                   *)
LoadDealsBody_count(args, r) ==
    IF r.outcome = "raise" \/ ~Truthy(r.value)
    THEN [args |-> args, deals |-> MockDeals, count |-> Len(MockDeals),
          source |-> "mock",
          upstream |-> IF r.outcome = "raise" THEN "raise"
                       ELSE IF r.value = None THEN "None" ELSE "empty"]
    ELSE [args |-> args, deals |-> r.value.items, count |-> Len(MockDeals),
          source |-> "api", upstream |-> "list"]

(* The body of load_deals, given what the get_todays_deals call did (r):   *)
(* the except branch and `if not deals` fall back to the sample data.  The *)
(* session holds a client whenever load_deals runs (the script stops       *)
(* before it otherwise).                                                   *)
LoadDealsBody(args, r) ==
    IF r.outcome = "raise"
    THEN [args |-> args, deals |-> MockDeals, count |-> Len(MockDeals),
          source |-> "mock", upstream |-> "raise"]
    ELSE IF ~Truthy(r.value)
    THEN [args |-> args, deals |-> MockDeals, count |-> Len(MockDeals),
          source |-> "mock",
          upstream |-> IF r.value = None THEN "None" ELSE "empty"]
    ELSE [args |-> args, deals |-> r.value.items, count |-> Len(r.value.items),
          source |-> "api", upstream |-> "list"]

(* Variant: no memoisation, every call runs the body.                      *)
MemoFresh_off(entry, t) == FALSE

(* st.cache_data: an entry is served while its age is below the ttl.       *)
MemoFresh(entry, t) == t - entry.at < LOAD_DEALS_TTL

(* Storing an entry drops the expired ones.                                *)
Live(m, t) == {a \in DOMAIN m : MemoFresh(m[a], t)}

LoadDealsOn(zip_code, radius, store_chains, outcomes) ==
    LET args == <<zip_code, radius, store_chains>> IN
    /\ IF args \in DOMAIN memo /\ MemoFresh(memo[args], now)
       THEN /\ ld' = [memo[args].value EXCEPT !.source = "memo"]
            /\ UNCHANGED <<now, cache, calls, ret, fetched, memo>>
       ELSE /\ \E o \in outcomes :
                  CachedRead(DealsReq(zip_code, radius, store_chains), o)
            /\ ld' = LoadDealsBody(args, ret')
            /\ memo' = [a \in Live(memo, now') \cup {args} |->
                          IF a = args THEN [value |-> ld', at |-> now']
                          ELSE memo[a]]

(* load_deals, whatever the upstream does.                                 *)
LoadDealsCall(zip_code, radius, store_chains) ==
    /\ LoadDealsOn(zip_code, radius, store_chains, RequestOutcomes)
    /\ UNCHANGED_rq

(* load_deals called on its own.                                           *)
LoadDeals(zip_code, radius, store_chains) ==
    LoadDealsCall(zip_code, radius, store_chains) /\ UNCHANGED_ui /\ UNCHANGED_ext

----------------------------------------------------------------------------
(* The script main.py: one run per interaction, over st.session_state.     *)

(* A new session: no key of st.session_state is set.                       *)
NoSession == [api_client |-> "absent", last_refresh |-> FALSE, user_prefs |-> FALSE]

(* No run of the script has started.                                       *)
NoRun == [pc |-> "none"]

(* The widgets' fixed texts.                                               *)
All == Str(<<"A", "l", "l">>)
Other == Str(<<"O", "t", "h", "e", "r">>)
SortOptions == {"Best Value", "Price (Low to High)", "Discount %", "Distance"}

(* KPI cards: sum(deal.get('discount_percent', 0) for deal in deals) adds  *)
(* the values to the int 0; a None among them is a TypeError.              *)
MetricsRaises(deals) ==
    \E i \in DOMAIN deals :
        Get(deals[i], "discount_percent", Num(0)).kind # "num"

RECURSIVE SumDiscounts(_)
SumDiscounts(deals) ==
    IF deals = <<>> THEN 0
    ELSE Get(Head(deals), "discount_percent", Num(0)).num
            + SumDiscounts(Tail(deals))

(* Variant: the discount read under the key 'discount'.                    *)
AvgSavings_key(deals) ==
    IF deals = <<>> THEN [sum |-> 0, over |-> 1]
    ELSE [sum |-> 0 * SumDiscounts(deals), over |-> Len(deals)]

(* avg_savings, as the fraction sum / over (0 for no deals).               *)
AvgSavings(deals) ==
    IF deals = <<>> THEN [sum |-> 0, over |-> 1]
    ELSE [sum |-> SumDiscounts(deals), over |-> Len(deals)]

(* The categories the selectbox offers beside "All".                       *)
Categories(deals) == {Get(deals[i], "category", Other) : i \in DOMAIN deals}

(* sorted(list(set(...))) compares the categories with < : a None beside   *)
(* another value is a TypeError.                                           *)
OptionsRaise(deals) ==
    None \in Categories(deals) /\ Cardinality(Categories(deals)) >= 2

CategoryOptions(deals) == {All} \cup Categories(deals)

(* Filter (the loop over deals).                                           *)
SearchFields == <<"product_name", "brand", "category">>

(* deal.get(f, '').lower() is an AttributeError unless the value is a str; *)
(* the three fields are read before any of them is searched.               *)
LowerRaises(deal) ==
    \E i \in DOMAIN SearchFields :
        Get(deal, SearchFields[i], Str(<<>>)).kind # "str"

(* any(search_query in field for field in search_fields if field)          *)
Matches(deal, search_query) ==
    \E i \in DOMAIN SearchFields :
        LET field == Lower(Get(deal, SearchFields[i], Str(<<>>)).items)
        IN  field # <<>> /\ Contains(search_query, field)

(* category_filter != "All" and deal.get('category') != category_filter    *)
CategoryDrops(deal, category_filter) ==
    category_filter # All /\ Get(deal, "category", None) # category_filter

(* The loop: the deals kept, in their order, or the exception that ends it. *)
RECURSIVE FilterLoop(_, _, _)
FilterLoop(deals, search_query, category_filter) ==
    IF deals = <<>> THEN [error |-> "none", items |-> <<>>]
    ELSE LET deal == Head(deals)
             rest == FilterLoop(Tail(deals), search_query, category_filter)
         IN  IF search_query # <<>> /\ LowerRaises(deal)
             THEN [error |-> "AttributeError", items |-> <<>>]
             ELSE IF rest.error # "none" THEN rest
             ELSE IF (search_query # <<>> /\ ~Matches(deal, search_query))
                     \/ CategoryDrops(deal, category_filter)
             THEN rest
             ELSE [error |-> "none", items |-> <<deal>> \o rest.items]

(* Sort.  The key of a deal under a sort option; Best Value (and any other *)
(* option) has the pair (discount_percent, -price).                        *)
SortKey(sort_option, x) ==
    IF sort_option = "Price (Low to High)" THEN <<Get(x, "price", Inf)>>
    ELSE IF sort_option = "Discount %" THEN <<Get(x, "discount_percent", Num(0))>>
    ELSE IF sort_option = "Distance" THEN <<Get(x, "distance", Inf)>>
    ELSE <<Get(x, "discount_percent", Num(0)),
           LET price == Get(x, "price", Num(0))
           IN  IF price.kind = "num" THEN Num(0 - price.num) ELSE price>>

(* Computing the key raises: the unary minus of a None price.              *)
SortKeyRaises(sort_option, x) ==
    /\ sort_option \notin {"Price (Low to High)", "Discount %", "Distance"}
    /\ Get(x, "price", Num(0)).kind # "num"

(* a < b on numbers and float('inf')                                       *)
LessNum(a, b) ==
    /\ a.kind = "num"
    /\ \/ b.kind = "inf"
       \/ b.kind = "num" /\ a.num < b.num

(* The first position at which two keys differ (0 if they are equal):      *)
(* tuples are compared there, with <.                                      *)
FirstDiff(k1, k2) ==
    IF \A i \in DOMAIN k1 : k1[i] = k2[i] THEN 0
    ELSE CHOOSE i \in DOMAIN k1 :
            k1[i] # k2[i] /\ \A j \in 1..(i - 1) : k1[j] = k2[j]

(* k1 < k2.  A key of one element is compared as the element itself.       *)
KeyLess(k1, k2) ==
    IF Len(k1) = 1 THEN LessNum(k1[1], k2[1])
    ELSE LET i == FirstDiff(k1, k2)
         IN  i # 0 /\ LessNum(k1[i], k2[i])

(* k1 < k2 is a TypeError: a None is compared with <.                      *)
KeyLessRaises(k1, k2) ==
    IF Len(k1) = 1 THEN k1[1] = None \/ k2[1] = None
    ELSE LET i == FirstDiff(k1, k2)
         IN  i # 0 /\ (k1[i] = None \/ k2[i] = None)

(* list.sort compares every element with another one, and some element of  *)
(* each group of keys with one outside it: it raises exactly when two of   *)
(* the keys cannot be compared.                                            *)
SortRaises(sort_option, l) ==
    \/ \E i \in DOMAIN l : SortKeyRaises(sort_option, l[i])
    \/ \E i, j \in DOMAIN l :
          i # j /\ KeyLessRaises(SortKey(sort_option, l[i]),
                                 SortKey(sort_option, l[j]))

(* reverse=True                                                            *)
Reverse(sort_option) ==
    sort_option \notin {"Price (Low to High)", "Distance"}

(* x has to come before y.                                                 *)
Before(sort_option, x, y) ==
    IF Reverse(sort_option)
    THEN KeyLess(SortKey(sort_option, y), SortKey(sort_option, x))
    ELSE KeyLess(SortKey(sort_option, x), SortKey(sort_option, y))

(* list.sort is stable, with reverse=True too: a deal goes behind the      *)
(* deals before it in the list that it does not have to precede.           *)
RECURSIVE InsertDeal(_, _, _)
InsertDeal(sort_option, x, l) ==
    IF l = <<>> THEN <<x>>
    ELSE IF Before(sort_option, x, Head(l)) THEN <<x>> \o l
    ELSE <<Head(l)>> \o InsertDeal(sort_option, x, Tail(l))

RECURSIVE SortDeals(_, _)
SortDeals(sort_option, l) ==
    IF l = <<>> THEN <<>>
    ELSE InsertDeal(sort_option, l[Len(l)],
                    SortDeals(sort_option, SubSeq(l, 1, Len(l) - 1)))

(* The deals the upstream can hold.  A field is a value, None (a JSON      *)
(* null, what the Product model gives an optional field left out) or       *)
(* missing from the dict.                                                  *)
Missing == [kind |-> "missing"]

Deal(product_name, brand, category, price, discount, distance) ==
    LET f == [product_name |-> product_name, brand |-> brand,
              category |-> category, price |-> price,
              discount_percent |-> discount, distance |-> distance]
    IN  [k \in {j \in DOMAIN f : f[j] # Missing} |-> f[k]]

DealTemplates ==
    { Deal(Str(<<"A", "b">>), Str(<<"c">>), Str(<<"A">>), Num(2), Num(1), Num(1)),
      Deal(Str(<<"b">>), Str(<<"C">>), Str(<<"B">>), Num(1), Num(1), Num(2)),
      Deal(Str(<<"c">>), Missing, Missing, Missing, Missing, Missing),
      Deal(Str(<<"a">>), None, Str(<<"A">>), None, Num(2), None),
      Deal(Str(<<"a">>), Str(<<"b">>), None, Num(1), Num(1), Num(1)),
      Deal(Str(<<"a">>), Str(<<"b">>), Str(<<"B">>), Num(1), None, Num(1)) }

(* The deals of one response: up to MaxDeals of them, with their ids.      *)
Datasets ==
    UNION {{[i \in 1..n |-> ("id" :> Str(IntToStr(i))) @@ t[i]] :
               t \in [1..n -> DealTemplates]} : n \in 1..MaxDeals}

(* The sidebar's values in a new session: settings.DEFAULT_ZIP_CODE,       *)
(* settings.DEFAULT_RADIUS and the preferred stores.                       *)
DEFAULT_ZIP_CODE == <<"7", "8", "7", "0", "4">>
DEFAULT_RADIUS == 5
PreferredStores ==
    <<<<"W", "a", "l", "m", "a", "r", "t">>, <<"H", "E", "B">>>>
DefaultArgs == <<DEFAULT_ZIP_CODE, DEFAULT_RADIUS, PreferredStores>>

(* What load_deals can have returned for these arguments: the deals of a   *)
(* non-empty response, or the sample data.                                 *)
Loaded ==
    {[args |-> DefaultArgs, deals |-> d, count |-> Len(d), source |-> "api",
      upstream |-> "list"] : d \in Datasets}
    \cup {[args |-> DefaultArgs, deals |-> MockDeals, count |-> Len(MockDeals),
           source |-> "mock", upstream |-> "None"]}

Queries_ui == {<<>>, <<"B">>}

(* A run of the script at its first line; the widgets keep their values    *)
(* from run to run (they are keyed in st.session_state).                   *)
NewRun(n, search_query, category_filter, sort_option, prev) ==
    [pc |-> "init", run |-> n, error |-> "none", steps |-> {},
     deals |-> <<>>, count |-> 0, avg |-> AvgSavings(<<>>),
     search_query |-> search_query, category_filter |-> category_filter,
     sort_option |-> sort_option, filtered |-> <<>>, shown |-> <<>>,
     prev |-> prev]

NoPrev == [pc |-> "none", shown |-> <<>>]

FirstRun == NewRun(1, <<>>, All, "Best Value", NoPrev)

(* The run goes on to pc, having done step.                                *)
Goes(v, step, pc) == [v EXCEPT !.pc = pc, !.steps = @ \cup {step}]

(* The run ends at step: st.stop() ("stopped") or an exception that        *)
(* reaches Streamlit ("crashed").                                          *)
Ends(v, step, pc, error) ==
    [v EXCEPT !.pc = pc, !.steps = @ \cup {step}, !.error = error]

(* Variant: the except branch reports the error and does not stop.         *)
InitSession_nostop(sess, client_ok, prefs_ok) ==
    IF sess.api_client # "absent"
    THEN [session |-> sess, error |-> "none", stop |-> FALSE]
    ELSE IF ~client_ok
    THEN [session |-> sess, error |-> "DealScoutAPI", stop |-> FALSE]
    ELSE IF ~prefs_ok
    THEN [session |-> [api_client |-> "ready", last_refresh |-> TRUE,
                       user_prefs |-> FALSE],
          error |-> "UserPreferences", stop |-> FALSE]
    ELSE [session |-> [api_client |-> "ready", last_refresh |-> TRUE,
                       user_prefs |-> TRUE],
          error |-> "none", stop |-> FALSE]

(* The State Management block: the three assignments in their order; the   *)
(* first exception ends the block, and the except branch calls st.error    *)
(* and st.stop().  DealScoutAPI() binds the key only once __init__ has     *)
(* returned.                                                               *)
InitSession(sess, client_ok, prefs_ok) ==
    IF sess.api_client # "absent"
    THEN [session |-> sess, error |-> "none", stop |-> FALSE]
    ELSE IF ~client_ok
    THEN [session |-> sess, error |-> "DealScoutAPI", stop |-> TRUE]
    ELSE IF ~prefs_ok
    THEN [session |-> [api_client |-> "ready", last_refresh |-> TRUE,
                       user_prefs |-> FALSE],
          error |-> "UserPreferences", stop |-> TRUE]
    ELSE [session |-> [api_client |-> "ready", last_refresh |-> TRUE,
                       user_prefs |-> TRUE],
          error |-> "none", stop |-> FALSE]

SessionInit ==
    /\ view.pc = "init"
    /\ \E client_ok, prefs_ok \in BOOLEAN :
          LET r == InitSession(session, client_ok, prefs_ok) IN
          /\ session' = r.session
          /\ view' = IF r.stop
                     THEN Ends(view, "init", "stopped", r.error)
                     ELSE [Goes(view, "init", "sidebar") EXCEPT !.error = r.error]
    /\ UNCHANGED <<now, cache, calls, ret, fetched, memo, ld, script, rq>>
    /\ UNCHANGED_ext

(* The sidebar reads st.session_state.user_prefs and .last_refresh.        *)
Sidebar ==
    /\ view.pc = "sidebar"
    /\ view' = IF session.user_prefs /\ session.last_refresh
               THEN Goes(view, "sidebar", "load")
               ELSE Ends(view, "sidebar", "crashed", "AttributeError")
    /\ UNCHANGED <<now, cache, calls, ret, fetched, memo, ld, script, rq, session>>
    /\ UNCHANGED_ext

(* deals, deals_count = load_deals(zip_code, radius_miles, selected_chains) *)
ScriptLoadDealsOn(outcomes) ==
    /\ view.pc = "load"
    /\ LoadDealsOn(DEFAULT_ZIP_CODE, DEFAULT_RADIUS, PreferredStores, outcomes)
    /\ UNCHANGED_rq
    /\ view' = [Goes(view, "load_deals", "metrics") EXCEPT
                   !.deals = ld'.deals, !.count = ld'.count]
    /\ UNCHANGED session
    /\ UNCHANGED_ext

(* The call, whatever the upstream does.                                   *)
ScriptLoadDeals == ScriptLoadDealsOn(RequestOutcomes)

(* The KPI cards.                                                          *)
Metrics ==
    /\ view.pc = "metrics"
    /\ view' = IF MetricsRaises(view.deals)
               THEN Ends(view, "metrics", "crashed", "TypeError")
               ELSE [Goes(view, "metrics", "widgets") EXCEPT
                        !.avg = AvgSavings(view.deals)]
    /\ UNCHANGED <<now, cache, calls, ret, fetched, memo, ld, script, rq, session>>
    /\ UNCHANGED_ext

(* The search box and the two selectboxes of the deals tab.                *)
Widgets(text, category_filter, sort_option) ==
    /\ view.pc = "widgets"
    /\ IF OptionsRaise(view.deals)
       THEN view' = Ends(view, "widgets", "crashed", "TypeError")
       ELSE /\ category_filter \in CategoryOptions(view.deals)
            /\ view.run > 1 =>
                  <<Lower(text), category_filter, sort_option>>
                     = <<view.search_query, view.category_filter, view.sort_option>>
            /\ view' = [Goes(view, "widgets", "filter") EXCEPT
                           !.search_query = Lower(text),
                           !.category_filter = category_filter,
                           !.sort_option = sort_option]
    /\ UNCHANGED <<now, cache, calls, ret, fetched, memo, ld, script, rq, session>>
    /\ UNCHANGED_ext

(* The filter loop (skipped for no deals).                                 *)
FilterStep ==
    /\ view.pc = "filter"
    /\ LET r == IF view.deals # <<>>
                THEN FilterLoop(view.deals, view.search_query, view.category_filter)
                ELSE [error |-> "none", items |-> <<>>]
       IN  view' = IF r.error # "none"
                   THEN Ends(view, "filter", "crashed", r.error)
                   ELSE [Goes(view, "filter", "sort") EXCEPT !.filtered = r.items]
    /\ UNCHANGED <<now, cache, calls, ret, fetched, memo, ld, script, rq, session>>
    /\ UNCHANGED_ext

(* The sort of the filtered deals (st.info for none), then the cards.      *)
SortStep ==
    /\ view.pc = "sort"
    /\ view' = IF view.filtered = <<>>
               THEN Goes(view, "info", "done")
               ELSE IF SortRaises(view.sort_option, view.filtered)
               THEN Ends(view, "sort", "crashed", "TypeError")
               ELSE [Goes(view, "sort", "done") EXCEPT
                        !.shown = SortDeals(view.sort_option, view.filtered)]
    /\ UNCHANGED <<now, cache, calls, ret, fetched, memo, ld, script, rq, session>>
    /\ UNCHANGED_ext

(* The next run of the script in the session (st.rerun(), an interaction). *)
Rerun ==
    /\ view.pc \in {"done", "stopped", "crashed"}
    /\ view.run < MaxRuns
    /\ view' = NewRun(view.run + 1, view.search_query, view.category_filter,
                      view.sort_option, [pc |-> view.pc, shown |-> view.shown])
    /\ UNCHANGED <<now, cache, calls, ret, fetched, memo, ld, script, rq, session>>
    /\ UNCHANGED_ext

----------------------------------------------------------------------------
(* The cache primitives called on their own.                               *)

CacheKeys == {<<"k">>, <<"l">>}
CacheValues == {None, EmptyList, Body([op |-> "x"], 0), Body([op |-> "y"], 0)}

CacheGet(key) ==
    LET g == GetCached(cache, key, now) IN
    /\ cache' = g.cache
    /\ ret' = Returned([op |-> "_get_cached", key |-> key], g.value, FALSE,
                       key \in DOMAIN cache /\ Fresh(cache[key], now))
    /\ UNCHANGED <<now, calls, fetched, memo, ld, script, rq>>
    /\ UNCHANGED_ui /\ UNCHANGED_ext

CacheSet(key, value) ==
    /\ cache' = SetCache(cache, key, value, now)
    /\ ret' = Returned([op |-> "_set_cache", key |-> key], value, FALSE, FALSE)
    /\ fetched' = [k \in DOMAIN fetched \cup {key} |->
                     IF k = key THEN [value |-> value, at |-> now]
                     ELSE fetched[k]]
    /\ UNCHANGED <<now, calls, memo, ld, script, rq>>
    /\ UNCHANGED_ui /\ UNCHANGED_ext

----------------------------------------------------------------------------
(* One operation of a client against an upstream that answers `script`:   *)
(* rq records what _request did under the operation.                       *)

Idle == [status |-> "idle", attempts |-> 0, failure |-> "none",
         raised |-> FALSE, result |-> "None"]

Operations ==
    {DealsReq(<<"1">>, 10, <<>>), SearchReq(<<"a">>, <<"1">>, 10),
     StoresReq(<<"1">>, 10, <<>>), StoreReq(<<"s">>),
     CreateReq(<<"1">>, 100), AlertsReq, DeleteReq(<<"1">>),
     DeleteReq(<<"2">>)}

Call(req) ==
    /\ rq.status = "idle"
    /\ IF req.op \in CachedOps
       THEN CachedRead(req, Request(script))
       ELSE Uncached(req, Request(script))
    /\ rq' = [status |-> "done"] @@ Request(script)
    /\ UNCHANGED <<memo, ld, script>>
    /\ UNCHANGED_ui /\ UNCHANGED_ext

(* The dashboard's first load in a new process, for the sidebar's values    *)
(* of a new session with HEB and Walmart selected.                         *)
HebWalmart == <<<<"H", "E", "B">>, <<"W", "a", "l", "m", "a", "r", "t">>>>

FirstLoad ==
    /\ rq.status = "idle"
    /\ LoadDealsOn(DEFAULT_ZIP_CODE, DEFAULT_RADIUS, HebWalmart, {Request(script)})
    /\ rq' = [status |-> "done"] @@ Request(script)
    /\ UNCHANGED script
    /\ UNCHANGED_ui /\ UNCHANGED_ext

----------------------------------------------------------------------------
(* Two threads inside get_todays_deals on one client, with the same         *)
(* arguments.  The code takes no lock: a thread can be switched out between *)
(* any two of the dict operations of _get_cached, and it waits for the      *)
(* upstream between _get_cached and _set_cache.                            *)

Callers == {1, 2}
SharedReq == DealsReq(<<"1">>, 10, <<>>)
SharedKey == KeyOf(SharedReq)

(* A thread at the first line of get_todays_deals.                         *)
Entering ==
    [pc |-> "contains", entry |-> None, data |-> None, sent |-> FALSE,
     hit |-> FALSE, missed_at |-> 0 - 1, outcome |-> "none"]

At(t, pc) == callers[t].pc = pc

UNCHANGED_caller == UNCHANGED <<ret, fetched, memo, ld, script, rq, session, view, alert>>

(* `if cached := ...` on what _get_cached returned: return it, or go on to *)
(* the request.                                                            *)
AfterGet(c, value) ==
    IF IsHit(value)
    THEN [c EXCEPT !.pc = "done", !.hit = TRUE, !.data = value,
                   !.outcome = "return"]
    ELSE [c EXCEPT !.pc = "request", !.missed_at = calls]

(* if key in self.cache:                                                   *)
CallerContains(t) ==
    /\ At(t, "contains")
    /\ callers' = [callers EXCEPT ![t] =
                      IF SharedKey \in DOMAIN cache
                      THEN [@ EXCEPT !.pc = "read"]
                      ELSE AfterGet(@, None)]
    /\ UNCHANGED <<now, cache, calls>>
    /\ UNCHANGED_caller

(* value, timestamp = self.cache[key] (a KeyError if the other thread has   *)
(* deleted the key since), then the expiry test.                           *)
CallerRead(t) ==
    /\ At(t, "read")
    /\ callers' = [callers EXCEPT ![t] =
                      IF SharedKey \notin DOMAIN cache
                      THEN [@ EXCEPT !.pc = "raised", !.outcome = "KeyError"]
                      ELSE IF Fresh(cache[SharedKey], now)
                      THEN AfterGet(@, cache[SharedKey].value)
                      ELSE [@ EXCEPT !.pc = "del"]]
    /\ UNCHANGED <<now, cache, calls>>
    /\ UNCHANGED_caller

(* del self.cache[key] (a KeyError if the key is gone), return None.        *)
CallerDel(t) ==
    /\ At(t, "del")
    /\ IF SharedKey \in DOMAIN cache
       THEN /\ cache' = Remove(cache, SharedKey)
            /\ callers' = [callers EXCEPT ![t] = AfterGet(@, None)]
       ELSE /\ UNCHANGED cache
            /\ callers' = [callers EXCEPT ![t] =
                              [@ EXCEPT !.pc = "raised", !.outcome = "KeyError"]]
    /\ UNCHANGED <<now, calls>>
    /\ UNCHANGED_caller

(* data = self._request("GET", "deals/today", params=params)               *)
CallerRequest(t) ==
    /\ At(t, "request")
    /\ calls < MaxCalls
    /\ calls' = calls + 1
    /\ \E o \in RequestOutcomes :
          callers' = [callers EXCEPT ![t] =
                         IF o.raised
                         THEN [@ EXCEPT !.pc = "raised", !.sent = TRUE,
                                        !.outcome = "raise"]
                         ELSE [@ EXCEPT !.pc = "set", !.sent = TRUE,
                                        !.data = Data(o, SharedReq, now)]]
    /\ UNCHANGED <<now, cache>>
    /\ UNCHANGED_caller

(* self._set_cache(cache_key, data); return data                           *)
CallerSet(t) ==
    /\ At(t, "set")
    /\ cache' = SetCache(cache, SharedKey, callers[t].data, now)
    /\ callers' = [callers EXCEPT ![t] =
                      [@ EXCEPT !.pc = "done", !.outcome = "return"]]
    /\ UNCHANGED <<now, calls>>
    /\ UNCHANGED_caller

(* The thread calls get_todays_deals again.                                *)
CallerAgain(t) ==
    /\ callers[t].pc \in {"done", "raised"}
    /\ calls < MaxCalls
    /\ callers' = [callers EXCEPT ![t] = Entering]
    /\ UNCHANGED <<now, cache, calls>>
    /\ UNCHANGED_caller

(* The clock, while threads are inside the client.                         *)
CallerTick ==
    /\ now < MaxTime
    /\ now' = now + 1
    /\ UNCHANGED <<cache, calls, callers>>
    /\ UNCHANGED_caller

----------------------------------------------------------------------------
(* models.PriceAlert: the two derived properties.  Prices are whole numbers *)
(* of cents (negative ones too: the model has no validator on them); a     *)
(* quotient is kept as the fraction num / den.                             *)

Prices == (0 - 2)..MaxPrice

Unread == [kind |-> "unread"]
Frac(n, d) == [kind |-> "frac", num |-> n, den |-> d]

(* x / y and x * k on a quotient                                           *)
Over(x, y) == Frac(x, y)
Times(q, k) == Frac(q.num * k, q.den)

(* Variant: the difference as the docstring words it, target - current.    *)
PriceDifference_docstring(a) == a.target_price - a.current_price

(* PriceAlert.price_difference                                             *)
PriceDifference(a) == a.current_price - a.target_price

(* PriceAlert.price_difference_percent                                     *)
PriceDifferencePercent(a) ==
    IF a.current_price = 0
    THEN Num(0)
    ELSE Times(Over(a.current_price - a.target_price, a.current_price), 100)

UNCHANGED_alert ==
    UNCHANGED <<now, cache, calls, ret, fetched, memo, ld, script, rq, session,
                view, callers>>

(* PriceAlert(id=..., target_price=..., current_price=..., ...)            *)
PriceAlertInit(target_price, current_price) ==
    /\ alert' = [id |-> "a", target_price |-> target_price,
                 current_price |-> current_price,
                 price_difference |-> Unread,
                 price_difference_percent |-> Unread]
    /\ UNCHANGED_alert

(* alert.price_difference is read.                                         *)
ReadPriceDifference ==
    /\ alert.id # "none"
    /\ alert' = [alert EXCEPT !.price_difference = Num(PriceDifference(alert))]
    /\ UNCHANGED_alert

(* alert.price_difference_percent is read.                                 *)
ReadPriceDifferencePercent ==
    /\ alert.id # "none"
    /\ alert' = [alert EXCEPT
                    !.price_difference_percent = PriceDifferencePercent(alert)]
    /\ UNCHANGED_alert

----------------------------------------------------------------------------
(* Specifications.                                                         *)

(* No thread is inside the client; no PriceAlert has been built.           *)
NoCallers == <<>>
NoAlert == [id |-> "none"]

Unreachable == [i \in 1..ScriptLen |-> ConnError]

Init ==
    /\ now = 0
    /\ cache = <<>>
    /\ calls = 0
    /\ ret = NoCall
    /\ fetched = <<>>
    /\ memo = <<>>
    /\ ld = NoLoad
    /\ script = Unreachable
    /\ rq = Idle
    /\ session = NoSession
    /\ view = NoRun
    /\ callers = NoCallers
    /\ alert = NoAlert

(* The client's cached reads.                                              *)
Next ==
    \/ Tick
    \/ \E z \in ZipCodes, r \in Radii, ch \in ChainLists : GetTodaysDeals(z, r, ch)
    \/ \E q \in Queries, z \in ZipCodes, r \in Radii : SearchProducts(q, z, r)
    \/ \E z \in ZipCodes, r \in Radii, ch \in StoreChainLists :
          GetNearbyStores(z, r, ch)
    \/ \E id \in StoreIds : GetStoreDetails(id)

Spec == Init /\ [][Next]_vars

(* The alert operations, beside a cached read that fills the cache.        *)
NextAlerts ==
    \/ Tick
    \/ \E z \in ZipCodes, r \in Radii, ch \in ChainLists : GetTodaysDeals(z, r, ch)
    \/ \E id \in AlertIds, price \in TargetPrices : CreatePriceAlert(id, price)
    \/ GetUserAlerts
    \/ \E id \in AlertIds : DeleteAlert(id)

SpecAlerts == Init /\ [][NextAlerts]_vars

(* The dashboard: every rerun of the script calls load_deals.              *)
NextApp ==
    \/ Tick
    \/ \E z \in ZipCodes, r \in Radii, ch \in ChainLists : LoadDeals(z, r, ch)

SpecApp == Init /\ [][NextApp]_vars

(* The cache alone.                                                        *)
NextCache ==
    \/ Tick
    \/ \E k \in CacheKeys : CacheGet(k)
    \/ \E k \in CacheKeys, v \in CacheValues : CacheSet(k, v)

SpecCache == Init /\ [][NextCache]_vars

(* One operation on a new client, for every upstream.                                    *)
InitRequest ==
    /\ now = 0
    /\ cache = <<>>
    /\ calls = 0
    /\ ret = NoCall
    /\ fetched = <<>>
    /\ memo = <<>>
    /\ ld = NoLoad
    /\ script \in Scripts
    /\ rq = Idle
    /\ session = NoSession
    /\ view = NoRun
    /\ callers = NoCallers
    /\ alert = NoAlert

NextRequest ==
    \/ \E req \in Operations : Call(req)
    \/ FirstLoad

SpecRequest == InitRequest /\ [][NextRequest]_vars

(* The script's runs in one session, over what load_deals returned for    *)
(* the sidebar's arguments (st.cache_data holds it, for every session).    *)
InitScript ==
    /\ now = 0
    /\ cache = <<>>
    /\ calls = 0
    /\ ret = NoCall
    /\ fetched = <<>>
    /\ ld \in Loaded
    /\ memo = (DefaultArgs :> [value |-> ld, at |-> 0])
    /\ script = Unreachable
    /\ rq = Idle
    /\ session = NoSession
    /\ view = FirstRun
    /\ callers = NoCallers
    /\ alert = NoAlert

NextScript ==
    \/ SessionInit
    \/ Sidebar
    \/ ScriptLoadDeals
    \/ Metrics
    \/ \E text \in Queries_ui, category_filter \in CategoryOptions(view.deals),
          sort_option \in SortOptions :
          Widgets(text, category_filter, sort_option)
    \/ FilterStep
    \/ SortStep
    \/ Rerun

SpecScript == InitScript /\ [][NextScript]_vars

(* The dashboard over time: the script's runs, the clock between them, the *)
(* Refresh button, and an upstream that goes down and comes back.          *)
Healthy == [i \in 1..ScriptLen |-> Resp(200, "list")]
Upstreams == {Unreachable, Healthy}

(* The run has ended and its page is on the screen.                        *)
Ended == view.pc \in {"done", "stopped", "crashed"}

(* The sidebar of the last run was drawn, the button with it: the run went *)
(* past the sidebar.                                                       *)
ButtonShown ==
    \/ view.pc = "done"
    \/ view.pc = "crashed" /\ session.user_prefs /\ session.last_refresh

(* load_deals against the upstream as it is now.                           *)
DashboardLoadDeals == ScriptLoadDealsOn({Request(script)})

(* A click on "Refresh Deals": the run it starts sets last_refresh at the   *)
(* button and calls st.rerun(), which starts the next run.                 *)
RefreshDeals ==
    /\ ButtonShown
    /\ view.run < MaxRuns
    /\ session' = [session EXCEPT !.last_refresh = TRUE]
    /\ view' = NewRun(view.run + 1, view.search_query, view.category_filter,
                      view.sort_option, [pc |-> "refresh", shown |-> view.shown])
    /\ UNCHANGED <<now, cache, calls, ret, fetched, memo, ld, script, rq>>
    /\ UNCHANGED_ext

(* The clock moves between two runs (a run is instantaneous on its scale). *)
DashboardTick ==
    /\ Ended
    /\ Tick

(* The upstream goes down or comes back between two runs.                  *)
UpstreamTurns ==
    /\ Ended
    /\ \E s \in Upstreams \ {script} : script' = s
    /\ UNCHANGED <<now, cache, calls, ret, fetched, memo, ld, rq, session, view>>
    /\ UNCHANGED_ext

(* A new session in a process that has served others: the store of         *)
(* st.cache_data is empty or holds what load_deals returned at time 0.     *)
InitDashboard ==
    /\ now = 0
    /\ cache = <<>>
    /\ calls = 0
    /\ ret = NoCall
    /\ fetched = <<>>
    /\ \/ ld \in Loaded /\ memo = (DefaultArgs :> [value |-> ld, at |-> 0])
       \/ ld = NoLoad /\ memo = <<>>
    /\ script \in Upstreams
    /\ rq = Idle
    /\ session = NoSession
    /\ view = FirstRun
    /\ callers = NoCallers
    /\ alert = NoAlert

NextDashboard ==
    \/ SessionInit
    \/ Sidebar
    \/ DashboardLoadDeals
    \/ Metrics
    \/ \E text \in Queries_ui, category_filter \in CategoryOptions(view.deals),
          sort_option \in SortOptions :
          Widgets(text, category_filter, sort_option)
    \/ FilterStep
    \/ SortStep
    \/ Rerun
    \/ RefreshDeals
    \/ DashboardTick
    \/ UpstreamTurns

SpecDashboard == InitDashboard /\ [][NextDashboard]_vars

(* Two threads in get_todays_deals on one client.                          *)
InitConcurrent ==
    /\ now = 0
    /\ cache = <<>>
    /\ calls = 0
    /\ ret = NoCall
    /\ fetched = <<>>
    /\ memo = <<>>
    /\ ld = NoLoad
    /\ script = Unreachable
    /\ rq = Idle
    /\ session = NoSession
    /\ view = NoRun
    /\ callers = [t \in Callers |-> Entering]
    /\ alert = NoAlert

NextConcurrent ==
    \/ CallerTick
    \/ \E t \in Callers : CallerContains(t)
    \/ \E t \in Callers : CallerRead(t)
    \/ \E t \in Callers : CallerDel(t)
    \/ \E t \in Callers : CallerRequest(t)
    \/ \E t \in Callers : CallerSet(t)
    \/ \E t \in Callers : CallerAgain(t)

SpecConcurrent == InitConcurrent /\ [][NextConcurrent]_vars

(* PriceAlert objects and their properties.                                *)
NextPriceAlert ==
    \/ \E target_price, current_price \in Prices :
          PriceAlertInit(target_price, current_price)
    \/ ReadPriceDifference
    \/ ReadPriceDifferencePercent

SpecPriceAlert == Init /\ [][NextPriceAlert]_vars

----------------------------------------------------------------------------
(* Properties.                                                             *)

(* A step in which an operation ran: operations leave the clock alone,     *)
(* Tick is the only step that moves it.                                    *)
Acted == now' = now

Count(l, x) == Cardinality({i \in DOMAIN l : l[i] = x})

(* l1 and l2 hold the same elements the same number of times.              *)
IsPermutation(l1, l2) ==
    /\ Len(l1) = Len(l2)
    /\ \A i \in DOMAIN l1 : Count(l1, l1[i]) = Count(l2, l1[i])

Elements(l) == {l[i] : i \in DOMAIN l}

(* C1: after a cached read whose Transport result was a successful         *)
(* non-empty value, every later call with the same parameters made while   *)
(* that result is younger than the TTL returns the same value and issues   *)
(* no Transport request.                                                   *)
C1_HitWithinTTL ==
    [][\A r \in DOMAIN fetched :
          (Acted /\ ret'.req = r /\ now - fetched[r].at < CACHE_TTL)
          => /\ ret'.outcome = "return"
             /\ ret'.value = fetched[r].value
             /\ ret'.sent = FALSE
             /\ calls' = calls]_vars

(* A later call, at a later time, was served the value fetched for it.    *)
W1_HitWithinTTL ==
    /\ ret.op \in CachedOps
    /\ ret.hit
    /\ ret.req \in DOMAIN fetched
    /\ ret.value = fetched[ret.req].value
    /\ now > fetched[ret.req].at
    /\ calls = 1

(* C2: set(k, v) overwrites whatever k held with v and the current time;   *)
(* a get(k) that follows while now - fetched_at is below the TTL returns   *)
(* v, and a get(k) made once the TTL has elapsed returns a miss.           *)
C2_SetThenGet ==
    [][/\ (Acted /\ ret'.op = "_set_cache")
          => /\ ret'.req.key \in DOMAIN cache'
             /\ cache'[ret'.req.key] = [value |-> ret'.value, timestamp |-> now]
       /\ (Acted /\ ret'.op = "_get_cached" /\ ret'.req.key \in DOMAIN fetched)
          => IF now - fetched[ret'.req.key].at < CACHE_TTL
             THEN ret'.value = fetched[ret'.req.key].value
             ELSE ret'.value = None /\ ret'.hit = FALSE]_vars

(* A get returned, at a later time within the TTL, the non-empty value     *)
(* last set for its key.                                                   *)
W2_SetThenGet ==
    /\ ret.op = "_get_cached"
    /\ ret.req.key \in DOMAIN fetched
    /\ ret.hit
    /\ Truthy(ret.value)
    /\ ret.value = fetched[ret.req.key].value
    /\ now > fetched[ret.req.key].at

(* C3: an entry is valid exactly when now - fetched_at < TTL; a get on an  *)
(* expired or absent key signals a miss, and after a get on an expired key *)
(* the key is no longer in the cache.                                      *)
C3_ExpiryAndEviction ==
    [][(Acted /\ ret'.op = "_get_cached")
       => LET k == ret'.req.key IN
          IF k \in DOMAIN cache /\ now - cache[k].timestamp < CACHE_TTL
          THEN ret'.hit /\ ret'.value = cache[k].value /\ cache' = cache
          ELSE /\ ret'.hit = FALSE
               /\ ret'.value = None
               /\ k \notin DOMAIN cache'
               /\ \A j \in DOMAIN cache \ {k} :
                     j \in DOMAIN cache' /\ cache'[j] = cache[j]]_vars

(* A get found its key exactly TTL old, signalled a miss and removed it.   *)
W3_ExpiryAndEviction ==
    /\ ret.op = "_get_cached"
    /\ ret.hit = FALSE
    /\ ret.req.key \in DOMAIN fetched
    /\ now - fetched[ret.req.key].at = CACHE_TTL
    /\ ret.req.key \notin DOMAIN cache

(* C4: whenever the deals call made by load_deals returns None or an empty *)
(* sequence, or raises, load_deals hands downstream the non-empty sample   *)
(* dataset, and the count is its length.                                   *)
C4_Fallback ==
    ld.upstream \in {"None", "empty", "raise"}
    => /\ ld.deals = MockDeals
       /\ ld.deals # <<>>
       /\ ld.count = Len(MockDeals)

(* The upstream answered [] and load_deals handed out the sample data.     *)
W4_Fallback ==
    /\ ld.upstream = "empty"
    /\ ld.source = "mock"
    /\ ld.deals = MockDeals
    /\ ret.sent /\ ret.value = EmptyList

(* C5: whatever the Transport does, _request and the operation built on it *)
(* return without raising, and a failed request results in None.           *)
C5_NeverRaises ==
    rq.status = "done"
    => /\ rq.raised = FALSE
       /\ ret.outcome = "return"
       /\ rq.failure # "none"
          => /\ rq.result = "None"
             /\ ret.value = IF ret.op = "delete_alert" THEN True ELSE None

(* A malformed body under get_todays_deals came back as None.              *)
W5_NeverRaises ==
    /\ rq.status = "done"
    /\ rq.failure = "ValueError"
    /\ ret.op = "get_todays_deals"
    /\ ret.outcome = "return"
    /\ ret.value = None

SameRequest(r1, r2) ==
    /\ r1.op = r2.op
    /\ IF r1.op = "get_todays_deals"
       THEN /\ r1.zip_code = r2.zip_code /\ r1.radius = r2.radius
            /\ Elements(r1.store_chains) = Elements(r2.store_chains)
       ELSE IF r1.op = "get_nearby_stores"
       THEN /\ r1.zip_code = r2.zip_code /\ r1.radius = r2.radius
            /\ Elements(r1.chains) = Elements(r2.chains)
       ELSE r1 = r2

(* The chain list of a deals or stores request.                            *)
ChainsOf(r) == IF r.op = "get_todays_deals" THEN r.store_chains ELSE r.chains

(* r2 is r1 with its chain list permuted.                                  *)
Permuted(r1, r2) ==
    /\ r1.op \in {"get_todays_deals", "get_nearby_stores"}
    /\ r1.op = r2.op /\ r1.zip_code = r2.zip_code /\ r1.radius = r2.radius
    /\ IsPermutation(ChainsOf(r1), ChainsOf(r2))

(* The last operation was a cached read that missed and wrote its entry,   *)
(* and that entry is still younger than the TTL.                           *)
WroteEntry ==
    /\ ret.op \in CachedOps /\ ret.outcome = "return" /\ ret.sent
    /\ KeyOf(ret.req) \in DOMAIN cache
    /\ now - cache[KeyOf(ret.req)].timestamp < CACHE_TTL

(* C7: two get_todays_deals (or get_nearby_stores) calls whose chain lists *)
(* are permutations of each other compute the same fingerprint, so the     *)
(* second call within the TTL is served from the entry the first wrote.    *)
C7_PermutedChainsServed ==
    [][(WroteEntry /\ Acted /\ ret'.outcome = "return"
          /\ Permuted(ret.req, ret'.req) /\ ret'.req # ret.req)
       => /\ KeyOf(ret'.req) = KeyOf(ret.req)
          /\ ret'.sent = FALSE
          /\ ret'.value = cache[KeyOf(ret.req)].value]_vars

(* The part of C7 the code keeps: permuted chain lists give the same       *)
(* fingerprint, and the second call is served from the first's entry when  *)
(* that entry holds a non-empty value.                                     *)
C7_PermutedChainsSameKey ==
    [][(WroteEntry /\ Acted /\ ret'.outcome = "return" /\ Permuted(ret.req, ret'.req))
       => /\ KeyOf(ret'.req) = KeyOf(ret.req)
          /\ Truthy(ret.value)
             => ret'.sent = FALSE /\ ret'.value = cache[KeyOf(ret.req)].value]_vars

(* C8: fingerprints are collision-free, so no cached read returns a value  *)
(* that was fetched for a different request.                               *)
C8_NoForeignValue ==
    (ret.op \in CachedOps /\ ret.outcome = "return")
    => \A i \in DOMAIN ret.value.items : SameRequest(ret.value.items[i].for, ret.req)

(* C9: create_price_alert, get_user_alerts and delete_alert never touch    *)
(* the cache: each invocation issues a Transport request and leaves every  *)
(* cache entry unchanged.                                                  *)
AlertOps == {"create_price_alert", "get_user_alerts", "delete_alert"}

C9_AlertsBypassCache ==
    [][(Acted /\ ret'.op \in AlertOps)
       => /\ ret'.sent
          /\ ret'.hit = FALSE
          /\ calls' = calls + 1
          /\ cache' = cache]_vars

(* get_user_alerts went to the Transport although the cache held a fresh,  *)
(* non-empty entry.                                                        *)
W9_AlertsBypassCache ==
    /\ ret.op = "get_user_alerts"
    /\ ret.sent
    /\ \E k \in DOMAIN cache : Truthy(cache[k].value) /\ Fresh(cache[k], now)

(* C10: an empty alerts list from a successful request is returned         *)
(* unchanged, and the result of get_user_alerts is never the sample data.  *)
C10_AlertsEmptyPassThrough ==
    (rq.status = "done" /\ ret.op = "get_user_alerts")
    => /\ ret.outcome = "return"
       /\ ret.value = Data(rq, ret.req, now)
       /\ ret.value.items # MockDeals
       /\ rq.result = "empty" => ret.value = EmptyList

(* The alerts request succeeded with [] and [] was returned.               *)
W10_AlertsEmptyPassThrough ==
    /\ rq.status = "done"
    /\ rq.result = "empty"
    /\ rq.failure = "none"
    /\ ret.op = "get_user_alerts"
    /\ ret.value = EmptyList

(* C11: a cached read that misses stores the raw Transport result under    *)
(* its fingerprint, also when the result is None, and the failure is       *)
(* cached for the full TTL: the next call with the same parameters within  *)
(* the TTL is answered None from the entry, without a Transport request.   *)
C11_FailureCachedForTTL ==
    [][/\ (Acted /\ ret'.op \in CachedOps /\ ret'.sent /\ ret'.outcome = "return")
          => /\ KeyOf(ret'.req) \in DOMAIN cache'
             /\ cache'[KeyOf(ret'.req)] = [value |-> ret'.value, timestamp |-> now]
       /\ (WroteEntry /\ ret.value = None /\ Acted /\ ret'.req = ret.req)
          => /\ ret'.sent = FALSE
             /\ ret'.value = None
             /\ calls' = calls]_vars

(* C12: a get on a key that holds an unexpired entry never has the outcome *)
(* of a get on a key that was never cached (None, the miss signal), and    *)
(* the callers' hit test takes it for a hit, also when the stored value is *)
(* [] or None.                                                             *)
C12_MissDistinguishable ==
    (/\ ret.op = "_get_cached"
     /\ ret.req.key \in DOMAIN cache
     /\ Fresh(cache[ret.req.key], now))
    => /\ ret.value # None
       /\ IsHit(ret.value)

(* C17: the deals request for ZIP "78704", radius 5 and chains HEB and     *)
(* Walmart against an unreachable upstream presents the six deals of the   *)
(* sample data, the count 6 and the average discount 161/6.                *)
C17_EndToEndSample ==
    (/\ rq.status = "done"
     /\ ld.args = <<DEFAULT_ZIP_CODE, DEFAULT_RADIUS, HebWalmart>>
     /\ \A i \in DOMAIN script : script[i] = ConnError)
    => /\ ld.deals = MockDeals
       /\ Len(ld.deals) = 6
       /\ ld.count = 6
       /\ [i \in DOMAIN ld.deals |-> ld.deals[i].discount_percent.num]
             = <<17, 30, 25, 25, 31, 33>>
       /\ AvgSavings(ld.deals).sum * 6 = 161 * AvgSavings(ld.deals).over

(* The upstream answered no attempt, the request gave up after its fourth, *)
(* and load_deals handed out the sample data.                              *)
W17_EndToEndSample ==
    /\ rq.status = "done"
    /\ script = Unreachable
    /\ ld.args = <<DEFAULT_ZIP_CODE, DEFAULT_RADIUS, HebWalmart>>
    /\ rq.attempts = 4
    /\ rq.failure = "ConnectionError"
    /\ ret.value = None
    /\ ld.source = "mock"
    /\ ld.deals = MockDeals

(* C18: delete_alert returns True for every alert id and every outcome of  *)
(* the Transport (success, non-2xx status, network failure), once the      *)
(* request has been issued.                                                *)
C18_DeleteAlwaysTrue ==
    (rq.status = "done" /\ ret.op = "delete_alert")
    => /\ ret.outcome = "return"
       /\ ret.sent
       /\ calls = 1
       /\ ret.value = True

(* The server answered the DELETE with 404 and delete_alert returned True. *)
W18_DeleteAlwaysTrue ==
    /\ rq.status = "done"
    /\ ret.op = "delete_alert"
    /\ ret.req.alert_id = <<"2">>
    /\ rq.failure = "HTTPError"
    /\ script[1] = Resp(404, "none")
    /\ ret.value = True


(* The claims about the deals tab, over the runs of the script.            *)

(* The run has been through the filter (and the sort, once it has ended).  *)
Filtered == "filter" \in view.steps

(* The run has ended after the filter step was reached.                    *)
Applied == Filtered /\ view.pc \in {"done", "crashed"}

(* The text of a field of an entry, lower-cased; the empty text when the   *)
(* entry has none.                                                         *)
TextOf(deal, field) ==
    IF field \in DOMAIN deal /\ deal[field].kind = "str"
    THEN Lower(deal[field].items) ELSE <<>>

(* The condition of the filter contract on one entry.                      *)
Wanted(deal, query, selector) ==
    /\ \/ query = <<>>
       \/ \E field \in {"product_name", "brand", "category"} :
             TextOf(deal, field) # <<>> /\ Contains(Lower(query), TextOf(deal, field))
    /\ \/ selector = All
       \/ "category" \in DOMAIN deal /\ deal.category = selector

(* The entries of l that are wanted, in the order of l.                    *)
RECURSIVE WantedOf(_, _, _)
WantedOf(l, query, selector) ==
    IF l = <<>> THEN <<>>
    ELSE (IF Wanted(Head(l), query, selector) THEN <<Head(l)>> ELSE <<>>)
            \o WantedOf(Tail(l), query, selector)

(* C13: an entry is kept if and only if (the query is empty or a           *)
(* case-insensitive substring of its name, brand or category) and (the     *)
(* selector is "All" or equals its category); the kept entries are in      *)
(* their order from the dataset.                                           *)
C13_FilterContract ==
    Filtered
    => view.filtered = WantedOf(view.deals, view.search_query, view.category_filter)

(* The number a field holds, or the default when the field is missing.     *)
NumberOf(deal, field, default) ==
    IF field \in DOMAIN deal /\ deal[field].kind = "num" THEN deal[field]
    ELSE default

(* a <= b on numbers and +infinity                                         *)
Leq(a, b) == b.kind = "inf" \/ (a.kind = "num" /\ b.kind = "num" /\ a.num <= b.num)

(* The order a single-key option asks of two entries, x shown before y.    *)
InOrder(sort_option, x, y) ==
    IF sort_option = "Price (Low to High)"
    THEN Leq(NumberOf(x, "price", Inf), NumberOf(y, "price", Inf))
    ELSE IF sort_option = "Discount %"
    THEN Leq(NumberOf(y, "discount_percent", Num(0)),
             NumberOf(x, "discount_percent", Num(0)))
    ELSE Leq(NumberOf(x, "distance", Inf), NumberOf(y, "distance", Inf))

SingleKeyOptions == {"Price (Low to High)", "Discount %", "Distance"}

(* C14: under "Price (Low to High)", "Discount %" and "Distance" the       *)
(* output is a permutation of the filtered entries in ascending price      *)
(* (missing: +infinity), descending discount percent (missing: 0) and      *)
(* ascending distance (missing: +infinity).                                *)
C14_SingleKeySorts ==
    (Applied /\ view.sort_option \in SingleKeyOptions)
    => /\ IsPermutation(view.shown, view.filtered)
       /\ \A i, j \in DOMAIN view.shown :
             i < j => InOrder(view.sort_option, view.shown[i], view.shown[j])

(* C15: "Best Value" orders the filtered entries by discount percent       *)
(* descending and, among entries of equal discount percent, by price       *)
(* ascending.                                                              *)
C15_BestValue ==
    (Applied /\ view.sort_option = "Best Value")
    => /\ IsPermutation(view.shown, view.filtered)
       /\ \A i, j \in DOMAIN view.shown :
             i < j =>
                LET di == NumberOf(view.shown[i], "discount_percent", Num(0))
                    dj == NumberOf(view.shown[j], "discount_percent", Num(0))
                IN  /\ Leq(dj, di)
                    /\ di = dj => Leq(NumberOf(view.shown[i], "price", Num(0)),
                                      NumberOf(view.shown[j], "price", Num(0)))

(* The sort key the contract gives an entry under an option.               *)
ContractKey(sort_option, x) ==
    IF sort_option = "Price (Low to High)" THEN <<NumberOf(x, "price", Inf)>>
    ELSE IF sort_option = "Discount %"
    THEN <<NumberOf(x, "discount_percent", Num(0))>>
    ELSE IF sort_option = "Distance" THEN <<NumberOf(x, "distance", Inf)>>
    ELSE <<NumberOf(x, "discount_percent", Num(0)), NumberOf(x, "price", Num(0))>>

(* The position of an entry in the dataset.                                *)
PositionIn(l, x) == CHOOSE i \in DOMAIN l : l[i] = x

(* C16: the same query, category and sort option applied twice to the      *)
(* same dataset give the same sequence both times, and entries of equal    *)
(* sort key keep their order from the dataset, under all four options.     *)
C16_DeterministicStable ==
    /\ Applied
       => /\ view.pc = "done"
          /\ \A i, j \in DOMAIN view.shown :
                (i < j /\ ContractKey(view.sort_option, view.shown[i])
                             = ContractKey(view.sort_option, view.shown[j]))
                => PositionIn(view.deals, view.shown[i])
                      < PositionIn(view.deals, view.shown[j])
    /\ (Applied /\ view.run > 1 /\ view.prev.pc \in {"done", "crashed"})
       => view.prev.pc = "done" /\ view.shown = view.prev.shown

(* C19: the filter and the sort never raise, whatever optional fields of   *)
(* the deals are missing or null: a run that reaches the filter ends with  *)
(* a result.                                                               *)
C19_FilterSortNeverRaise ==
    Filtered => view.pc # "crashed"

(* C20: when the construction of the client fails, the run stops with the  *)
(* error at the State Management block: no later step runs in it, no       *)
(* api_client is left in the session, and load_deals only ever runs with   *)
(* a constructed client.                                                   *)
C20_HaltOnClientFailure ==
    /\ view.error = "DealScoutAPI"
       => /\ view.pc = "stopped"
          /\ view.steps = {"init"}
          /\ session.api_client = "absent"
          /\ view.deals = <<>> /\ view.filtered = <<>> /\ view.shown = <<>>
    /\ "load_deals" \in view.steps => session.api_client = "ready"
    /\ session.api_client \in {"absent", "ready"}

(* The construction failed again in the session's second run, which        *)
(* stopped there.                                                          *)
W20_HaltOnClientFailure ==
    /\ view.error = "DealScoutAPI"
    /\ view.pc = "stopped"
    /\ view.run = 2
    /\ view.prev.pc = "stopped"
    /\ session.api_client = "absent"

(* C21: nothing guards the check-then-set of a cached read.  A thread that  *)
(* observed a miss issues its own upstream call whatever the other thread   *)
(* is doing, and its set overwrites whatever the key holds by then with    *)
(* its own data and the current time.                                      *)
C21_UnguardedCheckThenSet ==
    [][\A t \in Callers :
          /\ (At(t, "request") /\ callers'[t].pc # "request")
                => /\ calls' = calls + 1
                   /\ callers'[t].sent
          /\ (At(t, "set") /\ callers'[t].pc = "done")
                => /\ SharedKey \in DOMAIN cache'
                   /\ cache'[SharedKey] =
                         [value |-> callers[t].data, timestamp |-> now]]_vars

(* Both threads observed a miss before any upstream call was made, both    *)
(* made one, and the second thread's None has overwritten the deals the    *)
(* first one stored.                                                       *)
W21_UnguardedCheckThenSet ==
    /\ \A t \in Callers :
          /\ At(t, "done")
          /\ callers[t].sent
          /\ callers[t].missed_at = 0
    /\ calls = 2
    /\ Truthy(callers[1].data)
    /\ callers[2].data = None
    /\ SharedKey \in DOMAIN cache
    /\ cache[SharedKey].value = None

(* C22: for every PriceAlert, price_difference is current_price minus      *)
(* target_price, and price_difference_percent is price_difference /        *)
(* current_price * 100 for a non-zero current_price and exactly 0 for a    *)
(* current_price of 0.                                                     *)
C22_PriceAlertDerived ==
    alert.id # "none" =>
       LET d == alert.current_price - alert.target_price
           p == alert.price_difference_percent
       IN  /\ alert.price_difference # Unread => alert.price_difference = Num(d)
           /\ p # Unread =>
                 IF alert.current_price = 0
                 THEN p = Num(0)
                 ELSE /\ p.kind = "frac"
                      /\ p.den # 0
                      /\ p.num * alert.current_price = d * 100 * p.den

(* Both properties were read on an alert whose current price is 0 and      *)
(* whose target is not.                                                    *)
W22_PriceAlertDerived ==
    /\ alert.id # "none"
    /\ alert.current_price = 0
    /\ alert.target_price > 0
    /\ alert.price_difference = Num(0 - alert.target_price)
    /\ alert.price_difference_percent = Num(0)

(* An error status outside the retryable set.                              *)
NotRetried(o) == o.status >= 400 /\ o.status \notin {429, 500, 502, 503, 504}

(* C23, as stated: a response whose status is an error outside {429, 500,  *)
(* 502, 503, 504} is not retried, the request is attempted exactly once    *)
(* and the operation returns the no-result sentinel.                       *)
C23_NonRetryableReturnsNone ==
    (rq.status = "done" /\ NotRetried(script[1]))
    => /\ rq.attempts = 1
       /\ ret.outcome = "return"
       /\ ret.value = None

(* C23, amended: such a response ends the request (it is the only attempt  *)
(* when it answers the first one), _request returns None without raising,  *)
(* and the operation hands that None to its caller, except delete_alert,   *)
(* which returns True.                                                     *)
C23_NonRetryableOnce ==
    rq.status = "done"
    => /\ \A i \in 1..rq.attempts : NotRetried(script[i]) => i = rq.attempts
       /\ NotRetried(script[1]) => rq.attempts = 1
       /\ NotRetried(script[rq.attempts])
          => /\ rq.failure = "HTTPError"
             /\ rq.result = "None"
             /\ rq.raised = FALSE
             /\ ret.outcome = "return"
             /\ ret.sent
             /\ calls = 1
             /\ ret.value = IF ret.op = "delete_alert" THEN True ELSE None

(* A 401 answered the first attempt of search_products, which returned     *)
(* None after that one attempt, although the upstream would have answered  *)
(* a second attempt with deals.                                            *)
W23_NonRetryableOnce ==
    /\ rq.status = "done"
    /\ script[1] = Resp(401, "none")
    /\ script[2] = Resp(200, "list")
    /\ rq.attempts = 1
    /\ ret.op = "search_products"
    /\ ret.value = None

(* l1 is l2 with some entries left out, the others in their order.         *)
RECURSIVE IsSubSeq(_, _)
IsSubSeq(l1, l2) ==
    IF l1 = <<>> THEN TRUE
    ELSE IF l2 = <<>> THEN FALSE
    ELSE IF Head(l1) = Head(l2) THEN IsSubSeq(Tail(l1), Tail(l2))
    ELSE IsSubSeq(l1, Tail(l2))

(* C24: the count load_deals returns is the length of the dataset it       *)
(* returns, and the entries after filtering are at most as many as the     *)
(* entries before, both taken from the one dataset the run loaded (real or *)
(* sample).                                                                *)
C24_Counts ==
    /\ ld.source # "none" => ld.count = Len(ld.deals)
    /\ \A a \in DOMAIN memo : memo[a].value.count = Len(memo[a].value.deals)
    /\ view.pc # "none" /\ "load_deals" \in view.steps
       => /\ view.deals = ld.deals
          /\ view.count = Len(view.deals)
          /\ Len(view.filtered) <= view.count
          /\ IsSubSeq(view.filtered, view.deals)
          /\ Len(view.shown) <= Len(view.filtered)

(* The upstream was called and gave nothing; the run went over the sample  *)
(* data and the Dairy filter kept 2 of the 6.                              *)
W24_Counts ==
    /\ view.pc = "done"
    /\ ld.deals = MockDeals
    /\ view.count = 6
    /\ view.category_filter = Str(Dairy)
    /\ Len(view.filtered) = 2
    /\ Len(view.shown) = 2
    /\ calls > 0

(* C25: a hit leaves the cache as it was; an entry carries the time of the *)
(* set that wrote it however often it is read, so it is served only        *)
(* before that time plus the TTL; and a get or a set on one key leaves     *)
(* every other key's entry as it was.                                      *)
C25_HitLeavesCache ==
    [][(Acted /\ ret'.op \in {"_get_cached", "_set_cache"})
       => LET k == ret'.req.key IN
          /\ (ret'.op = "_get_cached" /\ ret'.hit)
                => /\ cache' = cache
                   /\ now < fetched[k].at + CACHE_TTL
          /\ \A j \in DOMAIN cache' :
                cache'[j] = [value |-> fetched'[j].value,
                             timestamp |-> fetched'[j].at]
          /\ \A j \in CacheKeys \ {k} :
                /\ j \in DOMAIN cache' <=> j \in DOMAIN cache
                /\ j \in DOMAIN cache => cache'[j] = cache[j]]_vars

(* A get hit its key at the last instant of its TTL, the entry still       *)
(* carrying the time of its set, while the other key holds an entry        *)
(* written later.                                                          *)
W25_HitLeavesCache ==
    /\ ret.op = "_get_cached"
    /\ ret.hit
    /\ now = fetched[ret.req.key].at + CACHE_TTL - 1
    /\ cache[ret.req.key].timestamp = fetched[ret.req.key].at
    /\ \E j \in DOMAIN cache \ {ret.req.key} :
          cache[j].timestamp > cache[ret.req.key].timestamp

(* C26: every category the selector offers beside "All" is satisfiable:    *)
(* chosen with an empty query, it keeps at least one entry of the dataset  *)
(* it was derived from, "Other" included.                                  *)
C26_OfferedSatisfiable ==
    (/\ Filtered
     /\ view.pc \in {"sort", "done"}
     /\ view.search_query = <<>>
     /\ view.category_filter # All)
    => view.filtered # <<>>

(* C27: load_deals is memoised per (zip_code, radius, store_chains): a     *)
(* call made while the result stored for its arguments is younger than the *)
(* ttl, also in a run the Refresh button started, returns the stored       *)
(* dataset and count and does not call the client; a call made later runs  *)
(* the body and starts a new window.                                       *)
C27_LoadDealsMemoised ==
    [][(view.pc = "load" /\ view'.pc = "metrics")
       => IF DefaultArgs \in DOMAIN memo
             /\ now - memo[DefaultArgs].at < LOAD_DEALS_TTL
          THEN /\ view'.deals = memo[DefaultArgs].value.deals
               /\ view'.count = memo[DefaultArgs].value.count
               /\ ld'.source = "memo"
               /\ calls' = calls
               /\ cache' = cache
               /\ ret' = ret
               /\ memo' = memo
          ELSE /\ ret'.op = "get_todays_deals"
               /\ ld'.source \in {"api", "mock"}
               /\ memo'[DefaultArgs] = [value |-> ld', at |-> now]]_vars

(* The first run called the upstream, got nothing and showed the sample    *)
(* data; the upstream came back; the run the Refresh button started was    *)
(* served the sample data again, with no second call.                      *)
W27_LoadDealsMemoised ==
    /\ view.pc # "none"
    /\ view.prev.pc = "refresh"
    /\ "load_deals" \in view.steps
    /\ ld.source = "memo"
    /\ ld.upstream = "None"
    /\ view.deals = MockDeals
    /\ view.count = 6
    /\ script = Healthy
    /\ calls = 1
    /\ ret.sent

====
